---- MODULE Spec2Model ----
(***************************************************************************)
(* A model of src/index.js: an express server with five routes over one    *)
(* JSON file, ./data.json, that holds an array of user objects.            *)
(*                                                                         *)
(* Values.  A JavaScript value that may be undefined is a sequence of      *)
(* length 0 (undefined) or 1 (the value).  A number is a decimal numeral   *)
(* in canonical form: the integer part as a natural number and the         *)
(* fraction digits without trailing zeros (NaN has nan = TRUE).  A string  *)
(* taken from the URL is a sequence of one-character strings.  An object   *)
(* in memory has the three properties id, name, role, each possibly        *)
(* undefined; an object in JSON text has only the properties that are      *)
(* defined.                                                                *)
(***************************************************************************)
EXTENDS Integers, Sequences, FiniteSets, TLC

VARIABLES file, hist, pc, frame

vars == <<file, hist, pc, frame>>

(***************************************************************************)
(* Bounds of the model.                                                    *)
(***************************************************************************)
MaxRecords == 2
NumSlots == 2

Slots == 1..NumSlots

Undefined == <<>>
Some(v) == <<v>>

Keys == {"id", "name", "role"}

(***************************************************************************)
(* Numbers and the conversion of a string to a number (the == of lines     *)
(* 68, 84 and 131 compares a number with a string by converting the        *)
(* string).  The strings of the model are made of digits, "." and letters, *)
(* so signs, exponents, radix prefixes and white space do not occur.       *)
(***************************************************************************)
DigitChars == <<"0", "1", "2", "3", "4", "5", "6", "7", "8", "9">>
Digits == {DigitChars[i] : i \in DOMAIN DigitChars}
DigitVal(c) == (CHOOSE i \in DOMAIN DigitChars : DigitChars[i] = c) - 1

Num(i, f) == [nan |-> FALSE, int |-> i, frac |-> f]
NaN == [nan |-> TRUE, int |-> 0, frac |-> <<>>]

RECURSIVE IntVal(_)
IntVal(s) ==
  IF s = <<>> THEN 0
  ELSE IntVal(SubSeq(s, 1, Len(s) - 1)) * 10 + DigitVal(s[Len(s)])

RECURSIVE StripZeros(_)
StripZeros(s) ==
  IF s # <<>> /\ s[Len(s)] = "0" THEN StripZeros(SubSeq(s, 1, Len(s) - 1))
  ELSE s

ToNumber(text) ==
  LET dots == {i \in DOMAIN text : text[i] = "."}
      rest == {i \in DOMAIN text : text[i] # "."}
  IN  IF text = <<>> THEN Num(0, <<>>)
      ELSE IF Cardinality(dots) > 1 \/ rest = {} \/ \E i \in rest : text[i] \notin Digits
        THEN NaN
      ELSE IF dots = {} THEN Num(IntVal(text), <<>>)
      ELSE LET d == CHOOSE i \in dots : TRUE
           IN  Num(IntVal(SubSeq(text, 1, d - 1)),
                   StripZeros(SubSeq(text, d + 1, Len(text))))

\* user.id === req.params.userId: a number is never strictly equal to a string
StrictEq(id, userId) == FALSE

\* user.id == req.params.userId: a number against a string
LooseEq(id, userId) ==
  /\ id # Undefined
  /\ LET n == ToNumber(userId)
     IN  ~n.nan /\ ~id[1].nan /\ id[1].int = n.int /\ id[1].frac = n.frac

(***************************************************************************)
(* JSON.  JSON.stringify leaves out a property whose value is undefined;   *)
(* JSON.parse gives an object whose missing properties read as undefined.  *)
(***************************************************************************)
StringifyObject(o) == [k \in {k \in Keys : o[k] # Undefined} |-> o[k][1]]
ParseObject(j) == [k \in Keys |-> IF k \in DOMAIN j THEN Some(j[k]) ELSE Undefined]

StringifyArray(a) == [i \in 1..Len(a) |-> StringifyObject(a[i])]
ParseArray(t) == [i \in 1..Len(t) |-> ParseObject(t[i])]

\* the contents of ./data.json: no file, a file that is not JSON, or JSON text
Missing == [kind |-> "missing", text |-> <<>>]
Garbage == [kind |-> "garbage", text |-> <<>>]
JsonFile(t) == [kind |-> "json", text |-> t]

JSONstringify(array) == JsonFile(StringifyArray(array))

\* fs.readFileSync("./data.json") throws when there is no file
readFileSync(f) == [threw |-> f.kind = "missing", rawData |-> f]

\* a parse that gives the empty array for text that is not JSON
JSONparseLenient(rawData) ==
  [threw |-> FALSE,
   array |-> IF rawData.kind = "json" THEN ParseArray(rawData.text) ELSE <<>>]

\* JSON.parse(rawData) throws when the text is not JSON
JSONparse(rawData) ==
  [threw |-> rawData.kind # "json",
   array |-> IF rawData.kind = "json" THEN ParseArray(rawData.text) ELSE <<>>]

(***************************************************************************)
(* The array methods the handlers use.  Positions are 0-based as in the    *)
(* source; the sequences of the model are 1-based.                         *)
(***************************************************************************)
Matches(array, userId) == {i \in 1..Len(array) : LooseEq(array[i].id, userId)}

Min(S) == CHOOSE x \in S : \A y \in S : x <= y

\* array.findLast in place of find
findLast(array, userId) ==
  IF Matches(array, userId) = {} THEN Undefined
  ELSE Some(CHOOSE i \in Matches(array, userId) : \A j \in Matches(array, userId) : j <= i)

\* array.find(user => user.id == userId): a reference to the first matching
\* element of the array (its position in the model), or undefined
find(array, userId) ==
  IF Matches(array, userId) = {} THEN Undefined
  ELSE Some(Min(Matches(array, userId)))

\* the index of the last match in place of the first
findLastIndex(array, userId) ==
  IF Matches(array, userId) = {} THEN -1
  ELSE (CHOOSE i \in Matches(array, userId) : \A j \in Matches(array, userId) : j <= i) - 1

\* array.findIndex(user => user.id == userId): the index of the first match, or -1
findIndex(array, userId) ==
  IF Matches(array, userId) = {} THEN -1
  ELSE Min(Matches(array, userId)) - 1

\* array.slice(start, deleteCount) in place of splice: the array is left as it was
slice(array, start, deleteCount) == array

\* array.splice(start, deleteCount): a negative start counts from the end
splice(array, start, deleteCount) ==
  LET len == Len(array)
      from == IF start < 0 THEN (IF len + start > 0 THEN len + start ELSE 0)
              ELSE (IF start < len THEN start ELSE len)
      cnt == IF deleteCount < 0 THEN 0
             ELSE (IF deleteCount < len - from THEN deleteCount ELSE len - from)
  IN  SubSeq(array, 1, from) \o SubSeq(array, from + cnt + 1, len)

\* array.unshift(o) in place of push
unshift(array, o) == <<o>> \o array

push(array, o) == Append(array, o)

(***************************************************************************)
(* Requests.  req.params.userId is a string of the URL; req.body.name and  *)
(* req.body.role are what the client sent, undefined when it sent none.    *)
(***************************************************************************)
UserIds == { <<"1">>, <<"0", ".", "1">>, <<".", "1">>, <<"z">> }

NoBody == [name |-> Undefined, role |-> Undefined]
Bodies == { [name |-> Some("Bo"), role |-> Some("user")],
            [name |-> Undefined, role |-> Some("user")] }

\* the values Math.random() returns in the model: 0.1 and 0.2
RandomValues == { Num(0, <<"1">>), Num(0, <<"2">>) }
NoRandom == Num(0, <<>>)

Request(method, userId, body) == [method |-> method, userId |-> userId, body |-> body]

Writes(method) == method \in {"POST /", "PUT /:userId", "DELETE /:userId"}

(***************************************************************************)
(* The body of each handler between the load of the array and the store    *)
(* or the response: the array it leaves, the element it found, and         *)
(* whether it threw.                                                       *)
(***************************************************************************)
Worked(array, found) == [threw |-> FALSE, array |-> array, requestedUser |-> found]
Threw(array) == [threw |-> TRUE, array |-> array, requestedUser |-> Undefined]

\* a new user without an id
newUserNoId(body, random) == [id |-> Undefined, name |-> body.name, role |-> body.role]

newUser(body, random) == [id |-> Some(random), name |-> body.name, role |-> body.role]

PostBody(array, body, random) == Worked(push(array, newUser(body, random)), Undefined)

\* a lookup that keeps the last of the matching elements
GetOneBodyLast(array, userId) ==
  LET requestedUser == findLast(array, userId)
  IN  Worked(array, IF requestedUser = Undefined THEN Undefined
                    ELSE Some(array[requestedUser[1]]))

\* a lookup that reads a property of what it found
GetOneBodyThrow(array, userId) ==
  LET requestedUser == find(array, userId)
  IN  IF requestedUser = Undefined THEN Threw(array)
      ELSE Worked(array, Some(array[requestedUser[1]]))

GetOneBody(array, userId) ==
  LET requestedUser == find(array, userId)
  IN  Worked(array, IF requestedUser = Undefined THEN Undefined
                    ELSE Some(array[requestedUser[1]]))

\* an update that adds the user when it finds none
PutBodyUpsert(array, userId, body) ==
  LET requestedUser == find(array, userId)
  IN  IF requestedUser = Undefined
      THEN Worked(Append(array, [id |-> Undefined, name |-> body.name, role |-> body.role]),
                  Undefined)
      ELSE Worked([array EXCEPT ![requestedUser[1]].name = body.name,
                                ![requestedUser[1]].role = body.role],
                  Undefined)

\* an update that takes the user out and pushes the changed one
PutBodyMoveToEnd(array, userId, body) ==
  LET requestedUser == find(array, userId)
  IN  IF requestedUser = Undefined THEN Threw(array)
      ELSE Worked(Append(splice(array, requestedUser[1] - 1, 1),
                         [array[requestedUser[1]] EXCEPT !.name = body.name,
                                                         !.role = body.role]),
                  Undefined)

\* an update that forgets the role
PutBodyNameOnly(array, userId, body) ==
  LET requestedUser == find(array, userId)
  IN  IF requestedUser = Undefined THEN Threw(array)
      ELSE Worked([array EXCEPT ![requestedUser[1]].name = body.name], Undefined)

\* requestedUser.name = ... on undefined throws a TypeError
PutBody(array, userId, body) ==
  LET requestedUser == find(array, userId)
  IN  IF requestedUser = Undefined THEN Threw(array)
      ELSE Worked([array EXCEPT ![requestedUser[1]].name = body.name,
                                ![requestedUser[1]].role = body.role],
                  Undefined)

\* a removal that is skipped when no index was found
DeleteBodyGuarded(array, userId) ==
  LET deleteUserIndex == findIndex(array, userId)
  IN  Worked(IF deleteUserIndex < 0 THEN array ELSE splice(array, deleteUserIndex, 1),
             Undefined)

DeleteBody(array, userId) ==
  LET deleteUserIndex == findIndex(array, userId)
  IN  Worked(splice(array, deleteUserIndex, 1), Undefined)

HandlerBody(req, array, random) ==
  CASE req.method = "GET /" -> Worked(array, Undefined)
    [] req.method = "POST /" -> PostBody(array, req.body, random)
    [] req.method = "GET /:userId" -> GetOneBody(array, req.userId)
    [] req.method = "PUT /:userId" -> PutBody(array, req.userId, req.body)
    [] req.method = "DELETE /:userId" -> DeleteBody(array, req.userId)

(***************************************************************************)
(* Responses.  res.json(v) sends the JSON text of v, and nothing when v is *)
(* undefined; res.end() sends no body.  An exception that leaves a handler *)
(* is answered by the framework's error handler.                           *)
(***************************************************************************)
NoResponse == [sent |-> FALSE, status |-> "none", body |-> Undefined]
Success(body) == [sent |-> TRUE, status |-> "success", body |-> body]
ErrorResponse == [sent |-> TRUE, status |-> "error", body |-> Undefined]

\* res.end() on every route
RespondEnd(req, done) == Success(Undefined)

Respond(req, done) ==
  CASE req.method = "GET /" -> Success(Some(StringifyArray(done.array)))
    [] req.method = "GET /:userId" ->
         Success(IF done.requestedUser = Undefined THEN Undefined
                 ELSE Some(StringifyObject(done.requestedUser[1])))
    [] OTHER -> Success(Undefined)

(***************************************************************************)
(* A whole handler, from the file it finds to the file it leaves and the   *)
(* response it sends.  Each handler is one synchronous function: it reads  *)
(* and parses the file, runs its body, writes the file (POST, PUT and      *)
(* DELETE) and responds; an exception ends it where it is thrown.          *)
(***************************************************************************)
Failed(f) == [file |-> f, res |-> ErrorResponse, threw |-> TRUE, wrote |-> FALSE]

Handler(f, req, random) ==
  LET read == readFileSync(f)
      parsed == JSONparse(read.rawData)
  IN  IF read.threw \/ parsed.threw THEN Failed(f)
      ELSE LET done == HandlerBody(req, parsed.array, random)
           IN  IF done.threw THEN Failed(f)
               ELSE [file |-> IF Writes(req.method) THEN JSONstringify(done.array) ELSE f,
                     res |-> Respond(req, done),
                     threw |-> FALSE,
                     wrote |-> Writes(req.method)]

(***************************************************************************)
(* State.  file is ./data.json.  hist holds the last two requests served,  *)
(* the older first: the request, the file it found, the file it left and   *)
(* what came of it.                                                        *)
(* pc and frame are the handler activations of the step-by-step            *)
(* specification: where each stands, and its request, its locals, whether  *)
(* it has written the file, and the response sent for it.                  *)
(***************************************************************************)
NoRequest == Request("none", <<>>, NoBody)
NoSummary == [req |-> NoRequest, before |-> Missing, after |-> Missing,
              res |-> NoResponse, threw |-> FALSE, wrote |-> FALSE]
Summary(req, before, out) ==
  [req |-> req, before |-> before, after |-> out.file,
   res |-> out.res, threw |-> out.threw, wrote |-> out.wrote]

NoFrame == [req |-> NoRequest, rawData |-> Missing, array |-> <<>>,
            requestedUser |-> Undefined, wrote |-> FALSE, res |-> NoResponse]

Ann == [id |-> Num(1, <<>>), name |-> "Ann", role |-> "admin"]

\* the file the server is started on
InitialFiles == {Missing, Garbage, JsonFile(<<>>), JsonFile(<<Ann>>)}

Init ==
  /\ file \in InitialFiles
  /\ hist = <<NoSummary, NoSummary>>
  /\ pc = [s \in Slots |-> "idle"]
  /\ frame = [s \in Slots |-> NoFrame]

\* the collection does not grow beyond the bound of the model
Room(f) == f.kind = "json" => Len(f.text) < MaxRecords

\* serving one request to its end: the file it leaves, and its entry in hist
Serve(req, random) ==
  /\ hist' = <<hist[2], Summary(req, file, Handler(file, req, random))>>
  /\ file' = hist'[2].after
  /\ UNCHANGED <<pc, frame>>

\* app.get("/")
GetAll ==
  /\ TRUE
  /\ Serve(Request("GET /", <<>>, NoBody), NoRandom)

\* app.post("/")
PostNew ==
  /\ Room(file)
  /\ \E body \in Bodies, random \in RandomValues :
       Serve(Request("POST /", <<>>, body), random)

\* app.get("/:userId")
GetOne ==
  /\ TRUE
  /\ \E userId \in UserIds : Serve(Request("GET /:userId", userId, NoBody), NoRandom)

\* app.put("/:userId")
PutOne ==
  /\ TRUE
  /\ \E userId \in UserIds, body \in Bodies :
       Serve(Request("PUT /:userId", userId, body), NoRandom)

\* app.delete("/:userId")
DeleteOne ==
  /\ TRUE
  /\ \E userId \in UserIds : Serve(Request("DELETE /:userId", userId, NoBody), NoRandom)

Next == GetAll \/ PostNew \/ GetOne \/ PutOne \/ DeleteOne

Spec == Init /\ [][Next]_vars

(***************************************************************************)
(* The same handlers statement by statement.  A slot is a connection: a    *)
(* request arrives on it (pending), its handler is called and loads the    *)
(* array (loaded), runs its body (modified), writes the file (stored) and  *)
(* responds (responded), then returns (idle).  An exception moves the      *)
(* activation to threw, and the framework answers it.                      *)
(*                                                                         *)
(* A handler is called from the event loop of one thread, and nothing in   *)
(* it waits: readFileSync and writeFileSync block, and there is no         *)
(* callback, promise or await between the first and the last line.  So a   *)
(* handler is called only when no other handler has been called and has    *)
(* not returned.                                                           *)
(***************************************************************************)
Running == {"loaded", "modified", "stored", "threw", "responded"}

\* handlers that wait between their statements (readFile and writeFile with await)
Interleaved(s) == TRUE

RunToCompletion(s) == \A t \in Slots \ {s} : pc[t] \notin Running

Arrive(s) ==
  /\ pc[s] = "idle"
  /\ pc' = [pc EXCEPT ![s] = "pending"]
  /\ UNCHANGED <<file, hist, frame>>

Requests ==
  {Request("GET /", <<>>, NoBody)}
    \cup {Request("POST /", <<>>, body) : body \in Bodies}
    \cup {Request(m, userId, NoBody) : m \in {"GET /:userId", "DELETE /:userId"},
                                       userId \in UserIds}
    \cup {Request("PUT /:userId", userId, body) : userId \in UserIds, body \in Bodies}

\* the handler is called: readFileSync and JSON.parse
Load(s) ==
  /\ pc[s] = "pending"
  /\ RunToCompletion(s)
  /\ \E req \in Requests :
       LET read == readFileSync(file)
           parsed == JSONparse(read.rawData)
       IN  /\ req.method = "POST /" => Room(file)
           /\ frame' = [frame EXCEPT ![s] = [NoFrame EXCEPT !.req = req,
                                                             !.rawData = read.rawData,
                                                             !.array = parsed.array]]
           /\ pc' = [pc EXCEPT ![s] = IF read.threw \/ parsed.threw THEN "threw"
                                      ELSE "loaded"]
  /\ UNCHANGED <<file, hist>>

\* the statements between the load and the store or the response
Body(s) ==
  /\ pc[s] = "loaded"
  /\ frame[s].req.method # "GET /"
  /\ \E random \in IF frame[s].req.method = "POST /" THEN RandomValues ELSE {NoRandom} :
       LET done == HandlerBody(frame[s].req, frame[s].array, random)
       IN  /\ frame' = [frame EXCEPT ![s].array = done.array,
                                     ![s].requestedUser = done.requestedUser]
           /\ pc' = [pc EXCEPT ![s] = IF done.threw THEN "threw" ELSE "modified"]
  /\ UNCHANGED <<file, hist>>

\* fs.writeFileSync("./data.json", JSON.stringify(array))
Store(s) ==
  /\ pc[s] = "modified"
  /\ Writes(frame[s].req.method)
  /\ file' = JSONstringify(frame[s].array)
  /\ frame' = [frame EXCEPT ![s].wrote = TRUE]
  /\ pc' = [pc EXCEPT ![s] = "stored"]
  /\ UNCHANGED hist

\* a handler that responds and returns without writing the file
ReplyEarly(s) ==
  /\ \/ pc[s] = "modified"
     \/ pc[s] = "loaded" /\ frame[s].req.method = "GET /"
  /\ frame' = [frame EXCEPT ![s].res = Respond(frame[s].req, frame[s])]
  /\ pc' = [pc EXCEPT ![s] = "responded"]
  /\ UNCHANGED <<file, hist>>

\* res.json(...) or res.end(): the last statement of the handler
Reply(s) ==
  /\ \/ pc[s] = "stored"
     \/ pc[s] = "modified" /\ frame[s].req.method = "GET /:userId"
     \/ pc[s] = "loaded" /\ frame[s].req.method = "GET /"
  /\ frame' = [frame EXCEPT ![s].res = Respond(frame[s].req, frame[s])]
  /\ pc' = [pc EXCEPT ![s] = "responded"]
  /\ UNCHANGED <<file, hist>>

\* the framework answers the exception that left the handler
Fail(s) ==
  /\ pc[s] = "threw"
  /\ frame' = [frame EXCEPT ![s].res = ErrorResponse]
  /\ pc' = [pc EXCEPT ![s] = "responded"]
  /\ UNCHANGED <<file, hist>>

Return(s) ==
  /\ pc[s] = "responded"
  /\ frame' = [frame EXCEPT ![s] = NoFrame]
  /\ pc' = [pc EXCEPT ![s] = "idle"]
  /\ UNCHANGED <<file, hist>>

StepNext ==
  \E s \in Slots : Arrive(s) \/ Load(s) \/ Body(s) \/ Store(s) \/ Reply(s) \/ Fail(s) \/ Return(s)

StepSpec == Init /\ [][StepNext]_vars

(***************************************************************************)
(* Properties.  Prev and Last are the last two requests served.            *)
(***************************************************************************)
Prev == hist[1]
Last == hist[2]

\* the request was of this route and found a JSON file
Is(h, method) == h.req.method = method /\ h.before.kind = "json"

\* a property of an object of the JSON text, read as JavaScript reads it
Field(j, k) == IF k \in DOMAIN j THEN Some(j[k]) ELSE Undefined

\* the positions of the records whose id is the number the text denotes
Hits(t, userId) ==
  {i \in 1..Len(t) : /\ "id" \in DOMAIN t[i]
                     /\ ~ToNumber(userId).nan
                     /\ t[i].id = ToNumber(userId)}

First(S) == CHOOSE i \in S : \A j \in S : i <= j

\* the collection without its i-th record
Without(t, i) == [k \in 1..(Len(t) - 1) |-> IF k < i THEN t[k] ELSE t[k + 1]]

\* C1: after a Create with name N and role R on a stored collection of length
\* n, the stored collection has length n + 1, its first n records are the
\* previous records in their order, and its last record has name N and role R.
C1_CreateAppends ==
  Is(Last, "POST /") =>
    /\ file.kind = "json"
    /\ Len(file.text) = Len(Last.before.text) + 1
    /\ SubSeq(file.text, 1, Len(Last.before.text)) = Last.before.text
    /\ Field(file.text[Len(file.text)], "name") = Last.req.body.name
    /\ Field(file.text[Len(file.text)], "role") = Last.req.body.role

C1_Witness ==
  /\ Is(Last, "POST /")
  /\ Len(Last.before.text) = 1
  /\ Len(file.text) = 2
  /\ Last.req.body.name = Some("Bo")

\* C2: a Delete by an identifier that no record matches leaves the length of
\* the stored collection unchanged.
C2_DeleteMissingKeepsLength ==
  Is(Last, "DELETE /:userId") /\ Hits(Last.before.text, Last.req.userId) = {} =>
    /\ file.kind = "json"
    /\ Len(file.text) = Len(Last.before.text)

\* C3: an Update by an identifier that no record matches does not fail: it
\* writes the unchanged collection back and responds with the empty success.
C3_UpdateMissingSucceeds ==
  Is(Last, "PUT /:userId") /\ Hits(Last.before.text, Last.req.userId) = {} =>
    /\ ~Last.threw
    /\ Last.wrote
    /\ file = Last.before
    /\ Last.res = Success(Undefined)

\* C4: an Update by an identifier that no record matches leaves the length of
\* the stored collection unchanged.
C4_UpdateMissingKeepsLength ==
  Is(Last, "PUT /:userId") /\ Hits(Last.before.text, Last.req.userId) = {} =>
    /\ file.kind = "json"
    /\ Len(file.text) = Len(Last.before.text)

C4_Witness ==
  /\ Is(Last, "PUT /:userId")
  /\ Hits(Last.before.text, Last.req.userId) = {}
  /\ Len(Last.before.text) = 2

\* the handler of a write request has loaded the array and not yet stored it
Between(s) == pc[s] \in {"loaded", "modified"} /\ Writes(frame[s].req.method)

\* C5 (as amended): requests do not interleave their load and store steps.
\* While the handler of a write request is between its load and its store, no
\* other handler runs and the file is still the one it loaded, so its store
\* discards no change of another request.
C5_NoLostUpdate ==
  \A s \in Slots :
    Between(s) =>
      /\ file = frame[s].rawData
      /\ \A t \in Slots \ {s} : pc[t] \notin Running

C5_Witness ==
  \E s, t \in Slots :
    /\ s # t
    /\ pc[s] = "modified"
    /\ Writes(frame[s].req.method)
    /\ frame[s].array # ParseArray(file.text)
    /\ pc[t] = "pending"

\* C5 (as stated): two write requests served at once can interleave their load
\* and store steps, so that both load the same collection: while one handler
\* is between its load and its store, the handler of a pending request can
\* be called and load.
C5_CanInterleave ==
  \A s, t \in Slots :
    s # t /\ Between(s) /\ pc[t] = "pending" => ENABLED Load(t)

\* C6: for an identifier that some stored record matches, Update(id, {name,
\* role}) followed at once by Get(id) returns a record with the submitted name
\* and role and the id the record had before the update.
C6_UpdateThenGet ==
  /\ Is(Prev, "PUT /:userId")
  /\ Hits(Prev.before.text, Prev.req.userId) # {}
  /\ Last.req = Request("GET /:userId", Prev.req.userId, NoBody)
  => /\ Last.res.status = "success"
     /\ Last.res.body # Undefined
     /\ Field(Last.res.body[1], "name") = Prev.req.body.name
     /\ Field(Last.res.body[1], "role") = Prev.req.body.role
     /\ Field(Last.res.body[1], "id")
          = Field(Prev.before.text[First(Hits(Prev.before.text, Prev.req.userId))], "id")

C6_Witness ==
  /\ Is(Prev, "PUT /:userId")
  /\ Hits(Prev.before.text, Prev.req.userId) # {}
  /\ Last.req = Request("GET /:userId", Prev.req.userId, NoBody)
  /\ Prev.req.body.name = Some("Bo")
  /\ Prev.before.text[First(Hits(Prev.before.text, Prev.req.userId))].role = "admin"
  /\ Last.res.body # Undefined

\* C7: for an identifier that some stored record matches, Delete removes one
\* record, the first in the order of the collection whose id matches, and
\* leaves the others present in their order.
C7_DeleteRemovesFirstMatch ==
  Is(Last, "DELETE /:userId") /\ Hits(Last.before.text, Last.req.userId) # {} =>
    /\ file.kind = "json"
    /\ file.text = Without(Last.before.text, First(Hits(Last.before.text, Last.req.userId)))

C7_Witness ==
  /\ Is(Last, "DELETE /:userId")
  /\ Cardinality(Hits(Last.before.text, Last.req.userId)) = 2
  /\ Last.before.text[1] # Last.before.text[2]
  /\ file.text = <<Last.before.text[2]>>

\* C8: when one stored record matches an identifier, Delete(id) followed by
\* Get(id) returns no record, and a List that follows returns the previous
\* collection without that record.
C8_DeleteThenGetThenList ==
  LET t == Prev.before.text
      gone == Without(t, First(Hits(t, Prev.req.userId)))
      list == Request("GET /", <<>>, NoBody)
  IN  Is(Prev, "DELETE /:userId") /\ Cardinality(Hits(t, Prev.req.userId)) = 1 =>
        /\ Last.req = Request("GET /:userId", Prev.req.userId, NoBody) =>
             /\ Last.res = Success(Undefined)
             /\ Handler(file, list, NoRandom).res = Success(Some(gone))
        /\ Last.req = list => Last.res = Success(Some(gone))

C8_Witness ==
  /\ Is(Prev, "DELETE /:userId")
  /\ Cardinality(Hits(Prev.before.text, Prev.req.userId)) = 1
  /\ Len(Prev.before.text) = 2
  /\ Last.req = Request("GET /:userId", Prev.req.userId, NoBody)
  /\ Last.res = Success(Undefined)

\* the text of a number, as JavaScript writes it
RECURSIVE IntDigits(_)
IntDigits(n) ==
  IF n < 10 THEN <<DigitChars[n + 1]>>
  ELSE IntDigits(n \div 10) \o <<DigitChars[(n % 10) + 1]>>

NumberToString(n) ==
  IF n.frac = <<>> THEN IntDigits(n.int)
  ELSE IntDigits(n.int) \o <<".">> \o n.frac

\* C9: for an identifier that some stored record matches, Get returns the
\* first record in the order of the collection whose id loosely equals the
\* text of the request; so a stored numeric id n is found by the text of n.
C9_GetFirstLooseMatch ==
  LET t == Last.before.text
      u == Last.req.userId
  IN  Is(Last, "GET /:userId") =>
        /\ Hits(t, u) # {} => Last.res = Success(Some(t[First(Hits(t, u))]))
        /\ \A i \in 1..Len(t) :
             "id" \in DOMAIN t[i] /\ u = NumberToString(t[i].id) =>
               /\ Last.res.body # Undefined
               /\ Last.res.body[1].id = t[i].id

C9_Witness ==
  /\ Is(Last, "GET /:userId")
  /\ Len(Last.before.text) = 2
  /\ Hits(Last.before.text, Last.req.userId) = {2}
  /\ Last.req.userId = NumberToString(Last.before.text[2].id)
  /\ Last.res = Success(Some(Last.before.text[2]))

\* C10: a List at once after a Create returns a collection that holds the
\* new record, and that record has a numeric id the server gave it.
C10_CreateThenList ==
  Is(Prev, "POST /") /\ Last.req.method = "GET /" =>
    /\ Last.res.status = "success"
    /\ Last.res.body # Undefined
    /\ LET list == Last.res.body[1]
           n == Len(Prev.before.text) + 1
       IN  /\ Len(list) = n
           /\ Field(list[n], "name") = Prev.req.body.name
           /\ Field(list[n], "role") = Prev.req.body.role
           /\ "id" \in DOMAIN list[n]
           /\ ~list[n].id.nan
           /\ list[n].id \in RandomValues

C10_Witness ==
  /\ Is(Prev, "POST /")
  /\ Last.req.method = "GET /"
  /\ Len(Prev.before.text) = 1
  /\ Last.res.body # Undefined
  /\ Len(Last.res.body[1]) = 2

\* C11: List and Get by identifier never change the stored collection: after
\* either, with any identifier, the file holds what it held before, and List
\* returns that full collection.
C11_ReadsKeepFile ==
  Last.req.method \in {"GET /", "GET /:userId"} =>
    /\ file = Last.before
    /\ ~Last.wrote
    /\ Is(Last, "GET /") => Last.res = Success(Some(Last.before.text))

C11_Witness ==
  /\ Is(Prev, "GET /:userId")
  /\ Is(Last, "GET /")
  /\ Len(Last.before.text) = 2
  /\ Last.res = Success(Some(file.text))

\* C12: Get by an identifier that no stored record matches ends normally
\* with an empty result, with no error and no outcome of its own for "not
\* found", and leaves the stored collection unchanged.
C12_GetMissingIsEmpty ==
  Is(Last, "GET /:userId") /\ Hits(Last.before.text, Last.req.userId) = {} =>
    /\ ~Last.threw
    /\ Last.res = Success(Undefined)
    /\ file = Last.before

C12_Witness ==
  /\ Is(Last, "GET /:userId")
  /\ Hits(Last.before.text, Last.req.userId) = {}
  /\ Len(Last.before.text) = 2
  /\ Last.res = Success(Undefined)

\* C13: when the file is missing or does not hold valid JSON, each of the
\* five operations fails at its load with an exception, writes nothing and
\* does not send its normal response: the storage is left as it was.
C13_BadFileFailsAtLoad ==
  \A h \in {Prev, Last} :
    h.req.method # "none" /\ h.before.kind # "json" =>
      /\ h.threw
      /\ ~h.wrote
      /\ h.res.status # "success"
      /\ h.after = h.before

C13_Witness ==
  /\ Prev.req.method = "DELETE /:userId"
  /\ Last.req.method = "POST /"
  /\ Last.before = Garbage
  /\ Last.threw
  /\ file = Garbage

\* the ids of the records, in the order of the collection
IdsOf(t) == [i \in 1..Len(t) |-> Field(t[i], "id")]

\* C14: the records of the stored collection stay in the order of their
\* creation: Create appends at the end, Update keeps the position of every
\* record, Delete of an identifier that is there takes out one element and
\* does not reorder the others, List and Get change nothing.
C14_OrderKept ==
  LET t == Last.before.text
      u == Last.req.userId
  IN  Last.before.kind = "json" /\ Last.req.method # "none" =>
        /\ file.kind = "json"
        /\ Last.req.method = "POST /" =>
             SubSeq(file.text, 1, Len(file.text) - 1) = t
        /\ Last.req.method = "PUT /:userId" =>
             /\ IdsOf(file.text) = IdsOf(t)
             /\ \A i \in 1..Len(t) : i \notin Hits(t, u) => file.text[i] = t[i]
        /\ Last.req.method = "DELETE /:userId" /\ Hits(t, u) # {} =>
             \E i \in 1..Len(t) : file.text = Without(t, i)
        /\ Last.req.method \in {"GET /", "GET /:userId"} => file.text = t

C14_Witness ==
  /\ Is(Last, "PUT /:userId")
  /\ Len(Last.before.text) = 2
  /\ Hits(Last.before.text, Last.req.userId) = {1}
  /\ file.text[1] # Last.before.text[1]
  /\ file.text[2] = Last.before.text[2]
  /\ Is(Prev, "POST /")

\* C15 (as amended): for each of Create, Update and Delete, the success
\* response of the handler is sent only after the write of the full
\* collection by that request has completed; a request whose handler throws
\* (at the load, or in Update when no record matches) writes nothing and is
\* answered with the error response of the framework.
C15_SuccessAfterStore ==
  \A s \in Slots :
    Writes(frame[s].req.method) =>
      /\ frame[s].res.status = "success" =>
           /\ frame[s].wrote
           /\ file = JSONstringify(frame[s].array)
      /\ frame[s].res.sent /\ ~frame[s].wrote =>
           /\ frame[s].res = ErrorResponse
           /\ file = frame[s].rawData
      /\ pc[s] = "threw" => ~frame[s].wrote

C15_Witness ==
  \E s \in Slots :
    /\ pc[s] = "responded"
    /\ frame[s].req.method = "POST /"
    /\ frame[s].res = Success(Undefined)
    /\ frame[s].wrote
    /\ file # frame[s].rawData

\* C15 (as stated): no write operation responds before or without its store:
\* whenever a response to a Create, Update or Delete has been sent, the
\* request has written the collection.
C15_NoResponseWithoutStore ==
  \A s \in Slots :
    Writes(frame[s].req.method) /\ frame[s].res.sent => frame[s].wrote

\* C16: Delete by an identifier that no stored record matches removes the
\* last record of a collection that is not empty (the position "not found"
\* goes to the removal as it is), leaves an empty collection empty, and in
\* both cases writes the result and responds with the empty success body.
C16_DeleteMissingRemovesLast ==
  LET t == Last.before.text
  IN  Is(Last, "DELETE /:userId") /\ Hits(t, Last.req.userId) = {} =>
        /\ file.kind = "json"
        /\ t = <<>> => file.text = <<>>
        /\ t # <<>> => file.text = SubSeq(t, 1, Len(t) - 1)
        /\ Last.wrote
        /\ ~Last.threw
        /\ Last.res = Success(Undefined)

C16_Witness ==
  /\ Is(Last, "DELETE /:userId")
  /\ Hits(Last.before.text, Last.req.userId) = {}
  /\ Len(Last.before.text) = 2
  /\ file.text = <<Last.before.text[1]>>
  /\ Last.before.text[1] # Last.before.text[2]

\* C17: Update by an identifier that some stored record matches changes the
\* name and the role of the first matching record and nothing else: the
\* length of the collection, the order of the records, every other record
\* and the id of the updated record are as before.
C17_UpdateChangesFirstMatchOnly ==
  LET t == Last.before.text
      hits == Hits(t, Last.req.userId)
  IN  Is(Last, "PUT /:userId") /\ hits # {} =>
        /\ file.kind = "json"
        /\ Len(file.text) = Len(t)
        /\ \A i \in 1..Len(t) : i # First(hits) => file.text[i] = t[i]
        /\ Field(file.text[First(hits)], "id") = Field(t[First(hits)], "id")
        /\ Field(file.text[First(hits)], "name") = Last.req.body.name
        /\ Field(file.text[First(hits)], "role") = Last.req.body.role

C17_Witness ==
  /\ Is(Last, "PUT /:userId")
  /\ Len(Last.before.text) = 2
  /\ Hits(Last.before.text, Last.req.userId) = {2}
  /\ file.text[2] # Last.before.text[2]
  /\ file.text[1] = Last.before.text[1]
  /\ Last.req.body.name = Undefined

\* the second of the positions
Second(S) == First(S \ {First(S)})

\* C18: identifiers are not kept unique (Create stores a record whatever ids
\* are there), and when several stored records share an identifier, Get,
\* Update and Delete by it act on the first of them in the order of the
\* collection: the later ones are not returned, changed or removed, and the
\* next one is found only once the earlier one has been deleted.
C18_DuplicatesFirstOnly ==
  LET t == Last.before.text
      hits == Hits(t, Last.req.userId)
      pt == Prev.before.text
      phits == Hits(pt, Prev.req.userId)
  IN  /\ Is(Last, "POST /") => ~Last.threw /\ Len(file.text) = Len(t) + 1
      /\ Last.before.kind = "json" /\ Cardinality(hits) >= 2 =>
           /\ Last.req.method = "GET /:userId" =>
                Last.res = Success(Some(t[First(hits)]))
           /\ Last.req.method = "PUT /:userId" =>
                /\ Len(file.text) = Len(t)
                /\ \A i \in hits \ {First(hits)} : file.text[i] = t[i]
           /\ Last.req.method = "DELETE /:userId" =>
                /\ file.text = Without(t, First(hits))
                /\ Hits(file.text, Last.req.userId) = {i - 1 : i \in hits \ {First(hits)}}
      /\ /\ Is(Prev, "DELETE /:userId")
         /\ Cardinality(phits) >= 2
         /\ Last.req = Request("GET /:userId", Prev.req.userId, NoBody)
         => Last.res = Success(Some(pt[Second(phits)]))

C18_Witness ==
  /\ Is(Prev, "DELETE /:userId")
  /\ Cardinality(Hits(Prev.before.text, Prev.req.userId)) = 2
  /\ Prev.before.text[1] # Prev.before.text[2]
  /\ Last.req = Request("GET /:userId", Prev.req.userId, NoBody)
  /\ Last.res = Success(Some(Prev.before.text[2]))

====
